---------------------------- MODULE Spec2Model ----------------------------
(***************************************************************************)
(* The `init` command of the project scaffolder (src/cmd/init.go): one     *)
(* process resolving author, license and language from flags or prompts,   *)
(* laying out the project skeleton, writing the license and committing the *)
(* tree into a fresh git repository.                                       *)
(*                                                                         *)
(* Text is modelled by TLA+ strings; paths are slash-separated strings     *)
(* relative to the working directory unless they start with "/".           *)
(***************************************************************************)
EXTENDS Integers, Sequences, FiniteSets, TLC

VARIABLES
    pc,              \* position of the process in initCmd.Run and its callees
    turns,           \* reads the prompt loop the process is in has made
    input,           \* the line getInput returned last ("" before any read)
    exit,            \* "" while running, else the way the process ended
    author,          \* package variable author   (--author, then the prompt)
    license,         \* package variable license  (--license, then the menu)
    language,        \* package variable language (--language, then the menu)
    force,           \* package variable force          (-f)
    nonInteractive,  \* package variable nonInteractive (-n)
    conf,            \* viper's in-memory settings of this process
    stored,          \* the persisted configuration store
    dirs,            \* directories of the working tree
    files,           \* regular files of the working tree: path -> content
    todo,            \* createSkeleton: catalog directories not yet visited
    last,            \* createSkeleton: the directory visited last, 0 outside the loop
    ftodo,           \* createSkeleton: templates not yet written
    errText,         \* createSkeleton: the text it wrapped its error in
    manifest,        \* createSkeleton: its map `files`, template -> destination
    initFiles,       \* languages.InitFiles as this build has it
    mapOrder,        \* how `range` walks the directory map, see NextDirs
    faulty,          \* whether calls may fail for reasons outside the tree
    gitInPath,       \* whether exec.LookPath finds git
    identity,        \* whether git knows who commits (user.name, user.email)
    index,           \* git: staged paths not yet committed
    commits,         \* git: commit messages, oldest first
    step,            \* initRepo: next entry of the commit narrative
    gitCmds,         \* git subcommands run by this process
    gitLog,          \* those subcommands in order, each with how it ended
    gitFaults,       \* narrative steps that failed for an outside reason
    runs,            \* processes started so far
    applied,         \* createSkeleton applications that returned nil
    first,           \* the tree as the first such application left it
    start            \* tree, store and history as the process found them

vars == <<pc, turns, input, exit, author, license, language, force, nonInteractive, conf,
          stored, dirs, files, todo, last, ftodo, errText, manifest, initFiles,
          mapOrder, faulty, gitInPath, identity, index, commits, step,
          gitCmds, gitLog, gitFaults, runs, applied, first, start>>

flagVars == <<author, license, language, force, nonInteractive>>
treeVars == <<dirs, files>>
loopVars == <<todo, last, ftodo, errText, manifest>>
gitVars  == <<index, commits, step, gitCmds, gitLog, gitFaults>>
harnessVars == <<initFiles, mapOrder, faulty, gitInPath, identity, runs, applied,
                first, start>>

(***************************************************************************)
(* Bounds of the model.                                                    *)
(***************************************************************************)
MaxGitFaults == 1      \* narrative steps that may fail for outside reasons
MaxRuns == 2           \* processes started one after the other (SpecRerun)
MaxApply == 2          \* applications of createSkeleton (SpecReapply)
MaxTurns == 2          \* reads of one prompt loop that are told apart

(***************************************************************************)
(* Text helpers.                                                           *)
(***************************************************************************)
Char(s, i) == SubSeq(s, i, i)

Digits == {"0", "1", "2", "3", "4", "5", "6", "7", "8", "9"}

DigitVal(c) ==
    CASE c = "0" -> 0 [] c = "1" -> 1 [] c = "2" -> 2 [] c = "3" -> 3
      [] c = "4" -> 4 [] c = "5" -> 5 [] c = "6" -> 6 [] c = "7" -> 7
      [] c = "8" -> 8 [] OTHER -> 9

RECURSIVE DigitsValue(_, _)
\* value of the decimal digits s, accumulated left to right onto acc
DigitsValue(s, acc) ==
    IF s = "" THEN acc
    ELSE DigitsValue(SubSeq(s, 2, Len(s)), 10 * acc + DigitVal(Char(s, 1)))

AllDigits(s) == \A i \in 1..Len(s) : Char(s, i) \in Digits

\* strconv.Atoi: an optional sign, then one or more decimal digits
Atoi(s) ==
    LET signed == Len(s) > 0 /\ Char(s, 1) \in {"+", "-"}
        body   == IF signed THEN SubSeq(s, 2, Len(s)) ELSE s
        mag    == DigitsValue(body, 0)
    IN  IF body = "" \/ ~AllDigits(body)
        THEN [err |-> TRUE, val |-> 0]
        ELSE [err |-> FALSE,
              val |-> IF signed /\ Char(s, 1) = "-" THEN 0 - mag ELSE mag]

RECURSIVE Chomp(_)
\* utils.Chomp: the line without its trailing line terminators
Chomp(s) ==
    IF Len(s) > 0 /\ Char(s, Len(s)) \in {"\n", "\r"}
    THEN Chomp(SubSeq(s, 1, Len(s) - 1))
    ELSE s

\* utils.Contains: exact, case-sensitive membership
Contains(list, s) == \E i \in 1..Len(list) : list[i] = s

\* the elements of a sequence
Range(seq) == {seq[i] : i \in 1..Len(seq)}

(***************************************************************************)
(* Paths.                                                                  *)
(***************************************************************************)
Cwd == "/work/proj"          \* os.Getwd(): the directory init is run in

\* filepath.Join of two clean elements; an empty element is ignored
Join(a, b) == IF a = "" THEN b ELSE IF b = "" THEN a ELSE a \o "/" \o b

HasPrefix(s, p) == Len(s) >= Len(p) /\ SubSeq(s, 1, Len(p)) = p

\* the place a path names in the working tree: relative to Cwd
Rel(p) ==
    IF HasPrefix(p, Cwd \o "/") THEN SubSeq(p, Len(Cwd) + 2, Len(p)) ELSE p

Slashes(p) == {i \in 1..Len(p) : Char(p, i) = "/"}

\* the path and every directory above it, up to the working directory
Ancestors(p) == {p} \cup {SubSeq(p, 1, i - 1) : i \in Slashes(p)}

Under(p, d) == p = d \/ HasPrefix(p, d \o "/")

\* paths.Dockerfile, paths.DockerCompose
Dockerfile(rootPath) == Join(rootPath, "Dockerfile")
DockerCompose(rootPath) == Join(rootPath, "docker-compose.yml")

(***************************************************************************)
(* Catalogs.                                                               *)
(***************************************************************************)
Licenses == <<"MIT", "BSD-3-Clause", "None">>

\* languages.Supported: the order is configuration, the first is the default
Supported == <<"python", "r">>

\* languages.InitFiles: language-specific templates, source -> destination
InitFiles ==
    [python |-> ("python/requirements.txt" :> "requirements.txt"),
     r      |-> <<>>]

\* the directory map of createSkeleton, in source order: keep = ".gitkeep"
Directories == <<
    [dir |-> ".ccds",             keep |-> FALSE],
    [dir |-> "data",              keep |-> FALSE],
    [dir |-> "data/external",     keep |-> TRUE],
    [dir |-> "data/interim",      keep |-> TRUE],
    [dir |-> "data/processed",    keep |-> TRUE],
    [dir |-> "data/raw",          keep |-> TRUE],
    [dir |-> "docs",              keep |-> TRUE],
    [dir |-> "models",            keep |-> TRUE],
    [dir |-> "notebooks",         keep |-> TRUE],
    [dir |-> "references",        keep |-> TRUE],
    [dir |-> "reports",           keep |-> FALSE],
    [dir |-> "reports/figures",   keep |-> TRUE],
    [dir |-> "src",               keep |-> FALSE],
    [dir |-> "src/datasets",      keep |-> TRUE],
    [dir |-> "src/features",      keep |-> TRUE],
    [dir |-> "src/models",        keep |-> TRUE],
    [dir |-> "src/scripts",       keep |-> TRUE],
    [dir |-> "src/visualization", keep |-> TRUE] >>

DirIndex == 1..Len(Directories)

\* the template map of createSkeleton: the universal entries, then the
\* language's own entries assigned over them
SkeletonFiles(projectRoot, lang) ==
    LET universal ==
            (("gitignore/" \o lang) :> ".gitignore")
            @@ ("docker/Dockerfile" :> Join(projectRoot, Dockerfile("")))
            @@ ("docker/docker-compose.yml"
                    :> Join(projectRoot, DockerCompose("")))
        own == IF lang \in DOMAIN initFiles THEN initFiles[lang] ELSE <<>>
    IN  own @@ universal

(***************************************************************************)
(* Configuration: viper's settings and the persisted store.                *)
(***************************************************************************)
NoConf == [ProjectRoot |-> "", Author |-> "", License |-> "",
           PrimaryLanguage |-> ""]

ConfigFile == ".ccds/config.yml"

\* the bytes of the store for the settings c
ConfigText(c) ==
    "ProjectRoot: " \o c.ProjectRoot \o "; Author: " \o c.Author
      \o "; License: " \o c.License \o "; PrimaryLanguage: "
      \o c.PrimaryLanguage

\* templates.Write renders the template src with the record data
Render(src, data) == "{{" \o src \o "}}(" \o data \o ")"

(***************************************************************************)
(* Inputs: command lines, trees the command is run in, lines on stdin.     *)
(***************************************************************************)
AuthorFlags == {"", "Ada"}
LicenseFlags == {"", "MIT", "BSD-3-Clause", "None", "mit"}
LanguageFlags == {"", "python", "r", "Foo"}

\* a line as ReadString returns it: "" at end of input
ConfirmLines == {"y\n", "n\n", "\n", "", "Y\n", "yes\n"}
AuthorLines == {"\n", "Ada\n"}
MenuLines == {"", "\n", "0\n", "1\n", "2\n", "3\n", "4\n", "+2\n", "-1\n",
              "x\n", "2"}

OldConf == [ProjectRoot |-> Cwd, Author |-> "Ada", License |-> "MIT",
            PrimaryLanguage |-> "python"]

InitTrees == {
    \* an empty directory
    [dirs |-> {}, files |-> <<>>, stored |-> NoConf],
    \* a directory somebody works in, under git already
    [dirs |-> {".git"}, files |-> ("README.md" :> "notes"),
     stored |-> NoConf],
    \* a directory where a regular file has the name of a catalog directory
    [dirs |-> {}, files |-> ("models" :> "weights"), stored |-> NoConf],
    \* what is left of an earlier attempt, edited by hand since
    [dirs |-> {"docs"},
     files |-> ("docs/.gitkeep" :> "keep") @@ ("Dockerfile" :> "FROM scratch"),
     stored |-> NoConf],
    \* a project initialized before
    [dirs |-> {".ccds"}, files |-> (ConfigFile :> ConfigText(OldConf)),
     stored |-> OldConf] }

Years == {"2026"}            \* strconv.Itoa(time.Now().Year())

(***************************************************************************)
(* Ways the process ends.                                                  *)
(***************************************************************************)
Done == "done"                        \* Run returned: status 0
Declined == "declined"                \* os.Exit(0) at the confirmation
AlreadyInitialized == "Project has already been initialized"
UnknownLicense == "unknown license"
UnknownLanguage == "unknown language"
InputRequired == "error: input required in non-interactive mode"
ReadDirFailed == "cannot read the working directory"
DetectRepoFailed == "failed to detect existing git repo"
SkeletonFailed == "createSkeleton failed"
LicenseFailed == "writeLicense failed"
RepoExists == "git repo already exists"
GitNotFound == "git not found in path"
GitInitFailed == "failed to initialize git repo"

ExitStatus == IF exit \in {Done, Declined} THEN 0 ELSE 1

\* the names ioutil.ReadDir finds in the working directory
Entries == {p \in dirs \cup DOMAIN files : Slashes(p) = {}}

\* one more read in a prompt loop; reads beyond MaxTurns are not told apart
Again(t) == IF t < MaxTurns THEN t + 1 ELSE t

\* whether a call succeeds as far as the world outside the tree goes
Outcomes == IF faulty THEN BOOLEAN ELSE {TRUE}

\* what a starting process finds: the tree, the store, the repository's
\* history, and how the process before it ended ("" when there was none)
Snapshot == [dirs |-> dirs, files |-> files, stored |-> stored,
             commits |-> commits, index |-> index, prev |-> exit]

(***************************************************************************)
(* The state a process starts in: flags parsed, the store loaded.          *)
(***************************************************************************)
Started ==
    /\ \E t \in InitTrees :
        /\ dirs = t.dirs
        /\ files = t.files
        /\ stored = t.stored
        /\ conf = t.stored
        /\ start = [dirs |-> t.dirs, files |-> t.files, stored |-> t.stored,
                    commits |-> <<>>, index |-> {}, prev |-> ""]
    /\ author \in AuthorFlags
    /\ license \in LicenseFlags
    /\ language \in LanguageFlags
    /\ force \in BOOLEAN
    /\ nonInteractive \in BOOLEAN
    /\ gitInPath \in BOOLEAN
    /\ identity = TRUE
    /\ pc = "L38"
    /\ input = ""
    /\ turns = 0
    /\ exit = ""
    /\ todo = {}
    /\ last = 0
    /\ ftodo = {}
    /\ errText = ""
    /\ manifest = <<>>
    /\ initFiles = InitFiles
    /\ index = {}
    /\ commits = <<>>
    /\ step = 1
    /\ gitCmds = 0
    /\ gitLog = <<>>
    /\ gitFaults = 0
    /\ runs = 1
    /\ applied = 0
    /\ first = [dirs |-> {}, files |-> <<>>]

Init == Started /\ mapOrder = "cyclic" /\ faulty = TRUE

(***************************************************************************)
(* initCmd.Run: configuration resolution.                                  *)
(***************************************************************************)
\* CheckInitialized without its test of ProjectRoot
CheckInitialized_NoGate ==
    /\ pc = "L38"
    /\ pc' = "L42"
    /\ UNCHANGED <<input, exit, flagVars, conf, stored, treeVars, loopVars,
                   gitVars, harnessVars, turns>>

\* line 38: the store decides whether the project was initialized
CheckInitialized ==
    /\ pc = "L38"
    /\ IF conf.ProjectRoot # ""
       THEN pc' = "exit" /\ exit' = AlreadyInitialized
       ELSE pc' = "L42" /\ exit' = exit
    /\ UNCHANGED <<input, flagVars, conf, stored, treeVars, loopVars,
                   gitVars, harnessVars, turns>>

\* lines 42-52: os.Getwd and ioutil.ReadDir, either of which may fail
ReadWorkingDir ==
    /\ pc = "L42"
    /\ \E ok \in Outcomes :
        IF ok
        THEN pc' = "L54" /\ exit' = exit
        ELSE pc' = "exit" /\ exit' = ReadDirFailed
    /\ UNCHANGED <<input, flagVars, conf, stored, treeVars, loopVars,
                   gitVars, harnessVars, turns>>

\* line 54: a directory with entries needs --force or a confirmation
CheckEmpty ==
    /\ pc = "L54"
    /\ pc' = IF Entries # {} /\ ~force THEN "L58" ELSE "L70"
    /\ UNCHANGED <<input, exit, flagVars, conf, stored, treeVars, loopVars,
                   gitVars, harnessVars, turns>>

\* Confirm taking an empty response for a yes
Confirm_DefaultYes ==
    /\ pc = "L58"
    /\ IF nonInteractive
       THEN pc' = "exit" /\ exit' = InputRequired /\ input' = input
       ELSE \E raw \in ConfirmLines :
              /\ input' = Chomp(raw)
              /\ IF input' = "y" \/ input' = ""
                 THEN pc' = "L70" /\ exit' = exit
                 ELSE IF input' = "n"
                      THEN pc' = "exit" /\ exit' = Declined
                      ELSE pc' = "L58" /\ exit' = exit
    /\ UNCHANGED <<flagVars, conf, stored, treeVars, loopVars, gitVars,
                   harnessVars>>
    /\ turns' = IF pc' = pc THEN Again(turns) ELSE 0

\* lines 57-67: one turn of the confirmation loop
Confirm ==
    /\ pc = "L58"
    /\ IF nonInteractive
       THEN pc' = "exit" /\ exit' = InputRequired /\ input' = input
       ELSE \E raw \in ConfirmLines :
              /\ input' = Chomp(raw)
              /\ IF input' = "y"
                 THEN pc' = "L70" /\ exit' = exit
                 ELSE IF input' = "n" \/ input' = ""
                      THEN pc' = "exit" /\ exit' = Declined
                      ELSE pc' = "L58" /\ exit' = exit
    /\ UNCHANGED <<flagVars, conf, stored, treeVars, loopVars, gitVars,
                   harnessVars>>
    /\ turns' = IF pc' = pc THEN Again(turns) ELSE 0

\* SetProjectRoot writing the store as well as viper's settings
SetProjectRoot_Persisting ==
    /\ pc = "L70"
    /\ conf' = [conf EXCEPT !.ProjectRoot = Cwd]
    /\ stored' = conf'
    /\ pc' = "L72"
    /\ UNCHANGED <<input, exit, flagVars, treeVars, loopVars, gitVars,
                   harnessVars, turns>>

\* line 70
SetProjectRoot ==
    /\ pc = "L70"
    /\ conf' = [conf EXCEPT !.ProjectRoot = Cwd]
    /\ pc' = "L72"
    /\ UNCHANGED <<input, exit, flagVars, stored, treeVars, loopVars,
                   gitVars, harnessVars, turns>>

\* lines 72-75
ResolveAuthor ==
    /\ pc = "L72"
    /\ IF author # ""
       THEN pc' = "L77" /\ UNCHANGED <<input, exit, author>>
       ELSE IF nonInteractive
            THEN pc' = "exit" /\ exit' = InputRequired
                 /\ UNCHANGED <<input, author>>
            ELSE \E raw \in AuthorLines :
                    /\ input' = Chomp(raw)
                    /\ author' = input'
                    /\ pc' = "L77"
                    /\ exit' = exit
    /\ UNCHANGED <<license, language, force, nonInteractive, conf, stored,
                   treeVars, loopVars, gitVars, harnessVars, turns>>

\* CheckLicense taking any license flag
CheckLicense_NoValidation ==
    /\ pc = "L77"
    /\ pc' = IF license = "" THEN "L90" ELSE "L104"
    /\ UNCHANGED <<input, exit, flagVars, conf, stored, treeVars, loopVars,
                   gitVars, harnessVars, turns>>

\* lines 77, 100-102: a license flag must be one of the licenses
CheckLicense ==
    /\ pc = "L77"
    /\ IF license = ""
       THEN pc' = "L90" /\ exit' = exit
       ELSE IF ~Contains(Licenses, license)
            THEN pc' = "exit" /\ exit' = UnknownLicense
            ELSE pc' = "L104" /\ exit' = exit
    /\ UNCHANGED <<input, flagVars, conf, stored, treeVars, loopVars,
                   gitVars, harnessVars, turns>>

\* LicenseMenu reading its line whatever nonInteractive says
LicenseMenu_Reads ==
    /\ pc = "L90"
    /\ \E raw \in MenuLines :
          LET choice == Atoi(Chomp(raw))
          IN  /\ input' = Chomp(raw)
              /\ exit' = exit
              /\ IF ~choice.err /\ choice.val > 0
                    /\ choice.val <= Len(Licenses)
                 THEN license' = Licenses[choice.val] /\ pc' = "L104"
                 ELSE license' = license /\ pc' = "L90"
    /\ UNCHANGED <<author, language, force, nonInteractive, conf, stored,
                   treeVars, loopVars, gitVars, harnessVars>>
    /\ turns' = IF pc' = pc THEN Again(turns) ELSE 0

\* LicenseMenu taking an empty response for the first license
LicenseMenu_DefaultFirst ==
    /\ pc = "L90"
    /\ IF nonInteractive
       THEN pc' = "exit" /\ exit' = InputRequired
            /\ UNCHANGED <<input, license>>
       ELSE \E raw \in MenuLines :
              LET choice == Atoi(Chomp(raw))
              IN  /\ input' = Chomp(raw)
                  /\ exit' = exit
                  /\ IF input' = ""
                     THEN license' = Licenses[1] /\ pc' = "L104"
                     ELSE IF ~choice.err /\ choice.val > 0
                             /\ choice.val <= Len(Licenses)
                          THEN /\ license' = Licenses[choice.val]
                               /\ pc' = "L104"
                          ELSE license' = license /\ pc' = "L90"
    /\ UNCHANGED <<author, language, force, nonInteractive, conf, stored,
                   treeVars, loopVars, gitVars, harnessVars>>
    /\ turns' = IF pc' = pc THEN Again(turns) ELSE 0

\* lines 90-99: one turn of the license menu
LicenseMenu ==
    /\ pc = "L90"
    /\ IF nonInteractive
       THEN pc' = "exit" /\ exit' = InputRequired
            /\ UNCHANGED <<input, license>>
       ELSE \E raw \in MenuLines :
              LET choice == Atoi(Chomp(raw))
              IN  /\ input' = Chomp(raw)
                  /\ exit' = exit
                  /\ IF ~choice.err /\ choice.val > 0
                        /\ choice.val <= Len(Licenses)
                     THEN license' = Licenses[choice.val] /\ pc' = "L104"
                     ELSE license' = license /\ pc' = "L90"
    /\ UNCHANGED <<author, language, force, nonInteractive, conf, stored,
                   treeVars, loopVars, gitVars, harnessVars>>
    /\ turns' = IF pc' = pc THEN Again(turns) ELSE 0

\* CheckLanguage taking any language flag
CheckLanguage_NoValidation ==
    /\ pc = "L104"
    /\ pc' = IF language = "" THEN "L117" ELSE "L136"
    /\ UNCHANGED <<input, exit, flagVars, conf, stored, treeVars, loopVars,
                   gitVars, harnessVars, turns>>

\* lines 104, 132-134: a language flag must be a supported language
CheckLanguage ==
    /\ pc = "L104"
    /\ IF language = ""
       THEN pc' = "L117" /\ exit' = exit
       ELSE IF ~Contains(Supported, language)
            THEN pc' = "exit" /\ exit' = UnknownLanguage
            ELSE pc' = "L136" /\ exit' = exit
    /\ UNCHANGED <<input, flagVars, conf, stored, treeVars, loopVars,
                   gitVars, harnessVars, turns>>

\* LanguageMenu with the upper end of the range off by one
LanguageMenu_OffByOne ==
    /\ pc = "L117"
    /\ IF nonInteractive
       THEN pc' = "exit" /\ exit' = InputRequired
            /\ UNCHANGED <<input, language>>
       ELSE \E raw \in MenuLines :
              LET choice == Atoi(Chomp(raw))
              IN  /\ input' = Chomp(raw)
                  /\ exit' = exit
                  /\ IF input' = ""
                     THEN language' = Supported[1] /\ pc' = "L136"
                     ELSE IF ~choice.err /\ choice.val > 0
                             /\ choice.val < Len(Supported)
                          THEN /\ language' = Supported[choice.val]
                               /\ pc' = "L136"
                          ELSE language' = language /\ pc' = "L117"
    /\ UNCHANGED <<author, license, force, nonInteractive, conf, stored,
                   treeVars, loopVars, gitVars, harnessVars>>
    /\ turns' = IF pc' = pc THEN Again(turns) ELSE 0

\* lines 117-131: one turn of the language menu
LanguageMenu ==
    /\ pc = "L117"
    /\ IF nonInteractive
       THEN pc' = "exit" /\ exit' = InputRequired
            /\ UNCHANGED <<input, language>>
       ELSE \E raw \in MenuLines :
              LET choice == Atoi(Chomp(raw))
              IN  /\ input' = Chomp(raw)
                  /\ exit' = exit
                  /\ IF input' = ""
                     THEN language' = Supported[1] /\ pc' = "L136"
                     ELSE IF ~choice.err /\ choice.val > 0
                             /\ choice.val <= Len(Supported)
                          THEN /\ language' = Supported[choice.val]
                               /\ pc' = "L136"
                          ELSE language' = language /\ pc' = "L117"
    /\ UNCHANGED <<author, license, force, nonInteractive, conf, stored,
                   treeVars, loopVars, gitVars, harnessVars>>
    /\ turns' = IF pc' = pc THEN Again(turns) ELSE 0

\* lines 136-141: the resolved values go to viper, the prompt loops' locals
\* are gone, createSkeleton is called
SetConfig ==
    /\ pc = "L136"
    /\ conf' = [conf EXCEPT !.Author = author, !.License = license,
                            !.PrimaryLanguage = language]
    /\ input' = ""
    /\ pc' = "L176"
    /\ UNCHANGED <<exit, flagVars, stored, treeVars, loopVars, gitVars,
                   harnessVars, turns>>

(***************************************************************************)
(* createSkeleton.                                                         *)
(***************************************************************************)
\* os.MkdirAll(dir): fails when dir or a directory above it is a regular
\* file, or for a reason outside the tree (ok = FALSE); else every missing
\* directory on the way is made and an existing one is left alone
MkdirAllFails(dir, ok) == ~ok \/ Ancestors(dir) \cap DOMAIN files # {}
\* os.MkdirAll preceded by os.RemoveAll: the directory is made afresh
MkdirAll_Fresh(dir) == {d \in dirs : ~Under(d, dir)} \cup Ancestors(dir)

MkdirAll(dir) == dirs \cup Ancestors(dir)

\* os.Create refusing a file that exists (O_EXCL)
CreateFails_Exclusive(path, ok) ==
    ~ok \/ path \in dirs \/ path \in DOMAIN files

\* os.Create(path): fails when path is a directory, or for a reason outside
\* the tree; else the file exists and is empty
CreateFails(path, ok) == ~ok \/ path \in dirs
Create(path) == (path :> "") @@ files

\* templates.Write(src, dest, data): renders src and writes it over dest
TemplateWriteFails(dest, ok) == ~ok \/ Rel(dest) \in dirs
TemplateWrite(src, dest, data) == (Rel(dest) :> Render(src, data)) @@ files

\* the entries `range directories` may yield next; Go leaves the order open.
\*   "any":    every order
\*   "cyclic": from any entry, on in source order, around to the one before
\*   "source": the source order
NextDirs ==
    IF mapOrder = "any" THEN todo
    ELSE IF last = 0
         THEN IF mapOrder = "source" THEN {1} ELSE todo
         ELSE {(last % Len(Directories)) + 1}

\* BeginSkeleton with utils.WriteConfig called first
BeginSkeleton_WritesConfig ==
    /\ pc = "L176"
    /\ todo' = DirIndex
    /\ last' = 0
    /\ manifest' = SkeletonFiles(conf.ProjectRoot, conf.PrimaryLanguage)
    /\ ftodo' = DOMAIN manifest'
    /\ stored' = conf
    /\ pc' = "L212"
    /\ UNCHANGED <<input, exit, flagVars, conf, treeVars, errText, gitVars,
                   harnessVars, turns>>

\* lines 176-210: the settings are read back, the two maps are built
BeginSkeleton ==
    /\ pc = "L176"
    /\ todo' = DirIndex
    /\ last' = 0
    /\ manifest' = SkeletonFiles(conf.ProjectRoot, conf.PrimaryLanguage)
    /\ ftodo' = DOMAIN manifest'
    /\ pc' = "L212"
    /\ UNCHANGED <<input, exit, flagVars, conf, stored, treeVars, errText,
                   gitVars, harnessVars, turns>>

\* MakeDirectory dropping the error of os.Create
MakeDirectory_KeepsGoing ==
    /\ pc = "L212"
    /\ \E i \in NextDirs, mkOk \in Outcomes, crOk \in Outcomes :
        LET dir  == Directories[i].dir
            path == Join(dir, ".gitkeep")
        IN  IF MkdirAllFails(dir, mkOk)
            THEN /\ pc' = "exit" /\ exit' = SkeletonFailed
                 /\ errText' = "failed to create directory " \o dir
                 /\ UNCHANGED <<dirs, files, todo, last>>
            ELSE /\ dirs' = MkdirAll(dir)
                 /\ files' = IF Directories[i].keep /\ ~CreateFails(path, crOk)
                              THEN Create(path) ELSE files
                 /\ todo' = todo \ {i}
                 /\ last' = IF todo' = {} \/ mapOrder = "any" THEN 0 ELSE i
                 /\ pc' = IF todo' = {} THEN "L228" ELSE "L212"
                 /\ UNCHANGED <<exit, errText>>
    /\ UNCHANGED <<input, flagVars, conf, stored, ftodo, manifest, gitVars,
                   harnessVars, turns>>

\* lines 212-226: one turn of the directory loop
MakeDirectory ==
    /\ pc = "L212"
    /\ \E i \in NextDirs, mkOk \in Outcomes, crOk \in Outcomes :
        LET dir  == Directories[i].dir
            path == Join(dir, ".gitkeep")
        IN  IF MkdirAllFails(dir, mkOk)
            THEN /\ pc' = "exit" /\ exit' = SkeletonFailed
                 /\ errText' = "failed to create directory " \o dir
                 /\ UNCHANGED <<dirs, files, todo, last>>
            ELSE /\ dirs' = MkdirAll(dir)
                 /\ IF Directories[i].keep /\ CreateFails(path, crOk)
                    THEN /\ pc' = "exit" /\ exit' = SkeletonFailed
                         /\ errText' = "failed to create file " \o path
                         /\ UNCHANGED <<files, todo, last>>
                    ELSE /\ files' = IF Directories[i].keep
                                     THEN Create(path) ELSE files
                         /\ todo' = todo \ {i}
                         /\ last' = IF todo' = {} \/ mapOrder = "any"
                                    THEN 0 ELSE i
                         /\ pc' = IF todo' = {} THEN "L228" ELSE "L212"
                         /\ UNCHANGED <<exit, errText>>
    /\ UNCHANGED <<input, flagVars, conf, stored, ftodo, manifest, gitVars,
                   harnessVars, turns>>

\* WriteTemplate dropping the error of templates.Write
WriteTemplate_IgnoreError ==
    /\ pc = "L228"
    /\ \E src \in ftodo, ok \in Outcomes :
        LET dest == manifest[src]
        IN  /\ files' = IF TemplateWriteFails(dest, ok)
                        THEN files
                        ELSE TemplateWrite(src, dest, "")
            /\ ftodo' = ftodo \ {src}
            /\ pc' = IF ftodo' = {} THEN "L234" ELSE "L228"
            /\ exit' = exit
    /\ UNCHANGED <<input, flagVars, conf, stored, dirs, todo, last, errText,
                   manifest, gitVars, harnessVars, turns>>

\* lines 228-232: one turn of the template loop
WriteTemplate ==
    /\ pc = "L228"
    /\ \E src \in ftodo, ok \in Outcomes :
        LET dest == manifest[src]
        IN  IF TemplateWriteFails(dest, ok)
            THEN /\ pc' = "exit" /\ exit' = SkeletonFailed
                 /\ UNCHANGED <<files, ftodo>>
            ELSE /\ files' = TemplateWrite(src, dest, "")
                 /\ ftodo' = ftodo \ {src}
                 /\ pc' = IF ftodo' = {} THEN "L234" ELSE "L228"
                 /\ exit' = exit
    /\ UNCHANGED <<input, flagVars, conf, stored, dirs, todo, last, errText,
                   manifest, gitVars, harnessVars, turns>>

\* utils.WriteConfig: viper's settings become the persisted store
WriteConfigFails(ok) == ~ok \/ ConfigFile \in dirs \/ ".ccds" \notin dirs

\* lines 234-238: the store is written, createSkeleton returns nil
WriteConfig ==
    /\ pc = "L234"
    /\ \E ok \in Outcomes :
        IF WriteConfigFails(ok)
        THEN /\ pc' = "exit" /\ exit' = SkeletonFailed
             /\ UNCHANGED <<stored, files, applied, first>>
        ELSE /\ stored' = conf
             /\ files' = (ConfigFile :> ConfigText(conf)) @@ files
             /\ applied' = applied + 1
             /\ first' = IF applied = 0
                         THEN [dirs |-> dirs, files |-> files']
                         ELSE first
             /\ pc' = "L145"
             /\ exit' = exit
    /\ UNCHANGED <<input, flagVars, conf, dirs, loopVars, gitVars, initFiles,
                   mapOrder, faulty, gitInPath, identity, runs, start, turns>>

(***************************************************************************)
(* writeLicense.                                                           *)
(***************************************************************************)
\* WriteLicense without the test for "None"
WriteLicense_AlwaysWrites ==
    /\ pc = "L145"
    /\ \E ok \in Outcomes, year \in Years :
        IF TemplateWriteFails("LICENSE", ok)
        THEN pc' = "exit" /\ exit' = LicenseFailed /\ UNCHANGED files
        ELSE /\ files' = TemplateWrite("licenses/" \o license, "LICENSE",
                                       year \o " " \o author)
             /\ pc' = "L150"
             /\ exit' = exit
    /\ UNCHANGED <<input, flagVars, conf, stored, dirs, loopVars, gitVars,
                   harnessVars, turns>>

\* lines 145-147, 241-256
WriteLicense ==
    /\ pc = "L145"
    /\ \E ok \in Outcomes, year \in Years :
        IF license = "None"
        THEN pc' = "L150" /\ UNCHANGED <<exit, files>>
        ELSE IF TemplateWriteFails("LICENSE", ok)
             THEN pc' = "exit" /\ exit' = LicenseFailed /\ UNCHANGED files
             ELSE /\ files' = TemplateWrite("licenses/" \o license, "LICENSE",
                                            year \o " " \o author)
                  /\ pc' = "L150"
                  /\ exit' = exit
    /\ UNCHANGED <<input, flagVars, conf, stored, dirs, loopVars, gitVars,
                   harnessVars, turns>>

(***************************************************************************)
(* initRepo.                                                               *)
(***************************************************************************)
\* Narrative with the data and docs steps in each other's place
Narrative_Swapped == <<
    [add |-> {".ccds"},
     msg |-> "Add ccds config directory"],
    [add |-> {".gitignore", "LICENSE"},
     msg |-> "Add standard repo files"],
    [add |-> {"Dockerfile", "docker-compose.yml"},
     msg |-> "Add Docker configuration for Jupyter"],
    [add |-> {"docs"},       msg |-> "Add directory for storing documentation"],
    [add |-> {"data"},       msg |-> "Add directory for storing datasets"],
    [add |-> {"models"},     msg |-> "Add directory for storing models"],
    [add |-> {"notebooks"},  msg |-> "Add directory for storing notebooks"],
    [add |-> {"references"}, msg |-> "Add directory for storing references"],
    [add |-> {"reports"},    msg |-> "Add directory for storing reports"],
    [add |-> {"src"},        msg |-> "Add directory for storing source code"] >>

\* lines 278-297: what each step stages and the message it commits with
Narrative == <<
    [add |-> {".ccds"},
     msg |-> "Add ccds config directory"],
    [add |-> {".gitignore", "LICENSE"},
     msg |-> "Add standard repo files"],
    [add |-> {"Dockerfile", "docker-compose.yml"},
     msg |-> "Add Docker configuration for Jupyter"],
    [add |-> {"data"},       msg |-> "Add directory for storing datasets"],
    [add |-> {"docs"},       msg |-> "Add directory for storing documentation"],
    [add |-> {"models"},     msg |-> "Add directory for storing models"],
    [add |-> {"notebooks"},  msg |-> "Add directory for storing notebooks"],
    [add |-> {"references"}, msg |-> "Add directory for storing references"],
    [add |-> {"reports"},    msg |-> "Add directory for storing reports"],
    [add |-> {"src"},        msg |-> "Add directory for storing source code"] >>

\* git add: refuses the whole command when a path matches nothing
GitAddFails(paths) == \E p \in paths : p \notin dirs \cup DOMAIN files
Staged(paths) == {f \in DOMAIN files : \E p \in paths : Under(f, p)}

\* git commit: refuses when nothing is staged or the committer is unknown
GitCommitFails == index = {} \/ ~identity

\* CheckRepo without the look for a repository marker
CheckRepo_NoMarkerCheck ==
    /\ pc = "L150"
    /\ \E readOk \in Outcomes :
        IF ~readOk
        THEN pc' = "exit" /\ exit' = DetectRepoFailed
        ELSE IF ~gitInPath
             THEN pc' = "exit" /\ exit' = GitNotFound
             ELSE pc' = "L274" /\ exit' = exit
    /\ UNCHANGED <<input, flagVars, conf, stored, treeVars, loopVars,
                   gitVars, harnessVars, turns>>

\* lines 259-272: an existing repository or a missing git stop initRepo
CheckRepo ==
    /\ pc = "L150"
    /\ \E readOk \in Outcomes :
        IF ~readOk
        THEN pc' = "exit" /\ exit' = DetectRepoFailed
        ELSE IF ".git" \in dirs
             THEN pc' = "exit" /\ exit' = RepoExists
             ELSE IF ~gitInPath
                  THEN pc' = "exit" /\ exit' = GitNotFound
                  ELSE pc' = "L274" /\ exit' = exit
    /\ UNCHANGED <<input, flagVars, conf, stored, treeVars, loopVars,
                   gitVars, harnessVars, turns>>

\* lines 274-276: git init
GitInit ==
    /\ pc = "L274"
    /\ gitCmds' = gitCmds + 1
    /\ \E ok \in Outcomes :
        /\ gitLog' = Append(gitLog, [cmd |-> "init", arg |-> {}, ok |-> ok])
        /\ IF ok
           THEN dirs' = dirs \cup {".git"} /\ pc' = "add" /\ exit' = exit
           ELSE dirs' = dirs /\ pc' = "exit" /\ exit' = GitInitFailed
    /\ UNCHANGED <<input, flagVars, conf, stored, files, loopVars, index,
                   commits, step, gitFaults, harnessVars, turns>>

\* gitAdd, lines 302-305, as called on lines 278-296: its error is dropped
GitAdd ==
    /\ pc = "add"
    /\ gitCmds' = gitCmds + 1
    /\ \E fault \in {f \in BOOLEAN : f => faulty /\ gitFaults < MaxGitFaults} :
        /\ gitFaults' = IF fault THEN gitFaults + 1 ELSE gitFaults
        /\ index' = IF fault \/ GitAddFails(Narrative[step].add)
                    THEN index
                    ELSE index \cup Staged(Narrative[step].add)
        /\ gitLog' = Append(gitLog,
                [cmd |-> "add", arg |-> Narrative[step].add,
                 ok |-> ~(fault \/ GitAddFails(Narrative[step].add))])
    /\ pc' = "commit"
    /\ UNCHANGED <<input, exit, flagVars, conf, stored, treeVars, loopVars,
                   commits, step, harnessVars, turns>>

\* GitCommit with the error of gitCommit returned by initRepo
GitCommit_ReturnsError ==
    /\ pc = "commit"
    /\ gitCmds' = gitCmds + 1
    /\ \E fault \in {f \in BOOLEAN : f => faulty /\ gitFaults < MaxGitFaults} :
        /\ gitFaults' = IF fault THEN gitFaults + 1 ELSE gitFaults
        /\ gitLog' = Append(gitLog,
                [cmd |-> "commit", arg |-> {Narrative[step].msg},
                 ok |-> ~(fault \/ GitCommitFails)])
        /\ IF fault \/ GitCommitFails
           THEN /\ UNCHANGED <<index, commits, step>>
                /\ pc' = "exit"
                /\ exit' = GitInitFailed
           ELSE /\ commits' = Append(commits, [msg |-> Narrative[step].msg,
                                               files |-> index])
                /\ index' = {}
                /\ IF step = Len(Narrative)
                   THEN pc' = "exit" /\ exit' = Done /\ step' = step
                   ELSE pc' = "add" /\ exit' = exit /\ step' = step + 1
    /\ UNCHANGED <<input, flagVars, conf, stored, treeVars, loopVars,
                   harnessVars, turns>>

\* gitCommit, lines 307-309, as called on lines 279-297: its error is
\* dropped; after the last one initRepo and Run return
GitCommit ==
    /\ pc = "commit"
    /\ gitCmds' = gitCmds + 1
    /\ \E fault \in {f \in BOOLEAN : f => faulty /\ gitFaults < MaxGitFaults} :
        /\ gitFaults' = IF fault THEN gitFaults + 1 ELSE gitFaults
        /\ gitLog' = Append(gitLog,
                [cmd |-> "commit", arg |-> {Narrative[step].msg},
                 ok |-> ~(fault \/ GitCommitFails)])
        /\ IF fault \/ GitCommitFails
           THEN UNCHANGED <<index, commits>>
           ELSE /\ commits' = Append(commits, [msg |-> Narrative[step].msg,
                                               files |-> index])
                /\ index' = {}
    /\ IF step = Len(Narrative)
       THEN pc' = "exit" /\ exit' = Done /\ step' = step
       ELSE pc' = "add" /\ exit' = exit /\ step' = step + 1
    /\ UNCHANGED <<input, flagVars, conf, stored, treeVars, loopVars,
                   harnessVars, turns>>

Resolve ==
    \/ CheckInitialized \/ ReadWorkingDir \/ CheckEmpty \/ Confirm
    \/ SetProjectRoot \/ ResolveAuthor \/ CheckLicense \/ LicenseMenu
    \/ CheckLanguage \/ LanguageMenu \/ SetConfig

Skeleton == BeginSkeleton \/ MakeDirectory \/ WriteTemplate \/ WriteConfig

Repo == CheckRepo \/ GitInit \/ GitAdd \/ GitCommit

Next == Resolve \/ Skeleton \/ WriteLicense \/ Repo

\* one run of init, from any command line, in any of the trees
Spec == Init /\ [][Next]_vars

(***************************************************************************)
(* init run again: the same command line in the tree and with the store    *)
(* the ended process left.  The command line names every value and forbids *)
(* prompts, so the package variables still hold the flags.                 *)
(***************************************************************************)
Rerun ==
    /\ pc = "exit"
    /\ runs < MaxRuns
    /\ nonInteractive
    /\ runs' = runs + 1
    /\ conf' = stored
    /\ start' = Snapshot
    /\ pc' = "L38"
    /\ exit' = ""
    /\ input' = ""
    /\ step' = 1
    /\ gitCmds' = 0
    /\ gitLog' = <<>>
    /\ applied' = 0
    /\ first' = [dirs |-> {}, files |-> <<>>]
    /\ errText' = ""
    /\ manifest' = <<>>
    /\ UNCHANGED <<flagVars, stored, treeVars, todo, last, ftodo, initFiles,
                   mapOrder, faulty, gitInPath, identity, index, commits,
                   gitFaults, turns>>

InitRerun ==
    /\ Started
    /\ mapOrder = "source"
    /\ faulty = TRUE
    /\ \/ stored.ProjectRoot # ""
       \/ /\ nonInteractive
          /\ author = "Ada"
          /\ license \in {"MIT", "mit", ""}
          /\ language \in {"python", ""}
          /\ dirs = {}
          /\ DOMAIN files = {}

NextRerun == Next \/ Rerun

SpecRerun == InitRerun /\ [][NextRerun]_vars

(***************************************************************************)
(* createSkeleton called again once it has returned nil, with the settings *)
(* and the tree of that moment, where nothing outside the tree fails.      *)
(***************************************************************************)
Reapply ==
    /\ pc = "L145"
    /\ applied < MaxApply
    /\ pc' = "L176"
    /\ UNCHANGED <<input, exit, flagVars, conf, stored, treeVars, loopVars,
                   gitVars, harnessVars, turns>>

InitReapply ==
    /\ \E t \in {u \in InitTrees : u.stored = NoConf} :
        /\ dirs = t.dirs
        /\ files = t.files
        /\ stored = t.stored
        /\ start = [dirs |-> t.dirs, files |-> t.files, stored |-> t.stored,
                    commits |-> <<>>, index |-> {}, prev |-> ""]
    /\ author \in AuthorFlags
    /\ \E i \in 1..Len(Licenses) : license = Licenses[i]
    /\ \E i \in 1..Len(Supported) : language = Supported[i]
    /\ conf = [ProjectRoot |-> Cwd, Author |-> author, License |-> license,
               PrimaryLanguage |-> language]
    /\ force = TRUE
    /\ nonInteractive = TRUE
    /\ pc = "L176"
    /\ input = ""
    /\ turns = 0
    /\ exit = ""
    /\ todo = {}
    /\ last = 0
    /\ ftodo = {}
    /\ errText = ""
    /\ manifest = <<>>
    /\ initFiles = InitFiles
    /\ mapOrder = "cyclic"
    /\ faulty = FALSE
    /\ gitInPath = TRUE
    /\ identity = TRUE
    /\ index = {}
    /\ commits = <<>>
    /\ step = 1
    /\ gitCmds = 0
    /\ gitLog = <<>>
    /\ gitFaults = 0
    /\ runs = 1
    /\ applied = 0
    /\ first = [dirs |-> {}, files |-> <<>>]

NextReapply == Skeleton \/ Reapply

SpecReapply == InitReapply /\ [][NextReapply]_vars

(***************************************************************************)
(* createSkeleton building its template map, for any language-specific     *)
(* catalogs languages.InitFiles may hold.                                  *)
(***************************************************************************)
CatalogSources == {"python/requirements.txt", "docker/Dockerfile"}
CatalogDests == {"requirements.txt", "Dockerfile", "python/Dockerfile"}

\* a language's catalog: some sources, each with a destination
Catalogs == UNION {[X -> CatalogDests] : X \in SUBSET CatalogSources}

InitManifest ==
    /\ initFiles \in [Range(Supported) -> Catalogs]
    /\ dirs = {}
    /\ files = <<>>
    /\ stored = NoConf
    /\ start = [dirs |-> {}, files |-> <<>>, stored |-> NoConf,
                commits |-> <<>>, index |-> {}, prev |-> ""]
    /\ author = "Ada"
    /\ license = "MIT"
    /\ language \in Range(Supported)
    /\ conf = [ProjectRoot |-> Cwd, Author |-> author, License |-> license,
               PrimaryLanguage |-> language]
    /\ force = TRUE
    /\ nonInteractive = TRUE
    /\ pc = "L176"
    /\ input = ""
    /\ turns = 0
    /\ exit = ""
    /\ todo = {}
    /\ last = 0
    /\ ftodo = {}
    /\ errText = ""
    /\ manifest = <<>>
    /\ mapOrder = "source"
    /\ faulty = FALSE
    /\ gitInPath = TRUE
    /\ identity = TRUE
    /\ index = {}
    /\ commits = <<>>
    /\ step = 1
    /\ gitCmds = 0
    /\ gitLog = <<>>
    /\ gitFaults = 0
    /\ runs = 1
    /\ applied = 0
    /\ first = [dirs |-> {}, files |-> <<>>]

NextManifest == BeginSkeleton

SpecManifest == InitManifest /\ [][NextManifest]_vars

(***************************************************************************)
(* writeLicense and initRepo after createSkeleton has returned nil, on a    *)
(* machine where git may or may not know who commits.                      *)
(***************************************************************************)
\* every directory createSkeleton ensures
SkeletonDirs == UNION {Ancestors(Directories[i].dir) : i \in DirIndex}

\* the files createSkeleton writes with the map m and the settings c, over
\* the files fs found
SkeletonTree(fs, m, c) ==
    LET keeps == {Join(Directories[i].dir, ".gitkeep") :
                    i \in {k \in DirIndex : Directories[k].keep}}
        dests == {Rel(m[src]) : src \in DOMAIN m}
    IN  (ConfigFile :> ConfigText(c))
        @@ [p \in dests |-> Render(CHOOSE src \in DOMAIN m : Rel(m[src]) = p, "")]
        @@ [p \in keeps |-> ""]
        @@ fs

InitRepo ==
    /\ initFiles = InitFiles
    /\ author \in AuthorFlags
    /\ license \in Range(Licenses)
    /\ language \in Range(Supported)
    /\ conf = [ProjectRoot |-> Cwd, Author |-> author, License |-> license,
               PrimaryLanguage |-> language]
    /\ stored = conf
    /\ manifest = SkeletonFiles(Cwd, language)
    /\ \E t \in {u \in InitTrees : /\ u.stored = NoConf
                                    /\ ".git" \notin u.dirs
                                    /\ SkeletonDirs \cap DOMAIN u.files = {}} :
        /\ dirs = t.dirs \cup SkeletonDirs
        /\ files = SkeletonTree(t.files, manifest, conf)
        /\ start = [dirs |-> t.dirs, files |-> t.files, stored |-> t.stored,
                    commits |-> <<>>, index |-> {}, prev |-> ""]
    /\ first = [dirs |-> dirs, files |-> files]
    /\ applied = 1
    /\ force = TRUE
    /\ nonInteractive = FALSE
    /\ pc = "L145"
    /\ input = ""
    /\ turns = 0
    /\ exit = ""
    /\ todo = {}
    /\ last = 0
    /\ ftodo = {}
    /\ errText = ""
    /\ mapOrder = "source"
    /\ faulty = TRUE
    /\ gitInPath = TRUE
    /\ identity \in BOOLEAN
    /\ index = {}
    /\ commits = <<>>
    /\ step = 1
    /\ gitCmds = 0
    /\ gitLog = <<>>
    /\ gitFaults = 0
    /\ runs = 1

NextRepo == WriteLicense \/ Repo

SpecRepo == InitRepo /\ [][NextRepo]_vars

(***************************************************************************)
(* createSkeleton with `range directories` free to yield the entries in    *)
(* any order, where nothing outside the tree fails.                        *)
(***************************************************************************)
InitAnyOrder ==
    /\ initFiles = InitFiles
    /\ dirs = {}
    /\ files = <<>>
    /\ stored = NoConf
    /\ start = [dirs |-> {}, files |-> <<>>, stored |-> NoConf,
                commits |-> <<>>, index |-> {}, prev |-> ""]
    /\ author = "Ada"
    /\ license = "MIT"
    /\ language = Supported[1]
    /\ conf = [ProjectRoot |-> Cwd, Author |-> author, License |-> license,
               PrimaryLanguage |-> language]
    /\ force = TRUE
    /\ nonInteractive = TRUE
    /\ pc = "L176"
    /\ input = ""
    /\ turns = 0
    /\ exit = ""
    /\ todo = {}
    /\ last = 0
    /\ ftodo = {}
    /\ errText = ""
    /\ manifest = <<>>
    /\ mapOrder = "any"
    /\ faulty = FALSE
    /\ gitInPath = TRUE
    /\ identity = TRUE
    /\ index = {}
    /\ commits = <<>>
    /\ step = 1
    /\ gitCmds = 0
    /\ gitLog = <<>>
    /\ gitFaults = 0
    /\ runs = 1
    /\ applied = 0
    /\ first = [dirs |-> {}, files |-> <<>>]

NextAnyOrder == Skeleton

SpecAnyOrder == InitAnyOrder /\ [][NextAnyOrder]_vars

(***************************************************************************)
(* Properties.                                                             *)
(***************************************************************************)

\* this process has changed neither the tree, nor the store, nor the
\* repository, and has run no git command
Untouched ==
    /\ dirs = start.dirs
    /\ files = start.files
    /\ stored = start.stored
    /\ commits = start.commits
    /\ index = start.index
    /\ gitCmds = 0

SkeletonPcs == {"L176", "L212", "L228", "L234"}
RepoPcs == {"L150", "L274", "add", "commit"}
RepoFailures == {DetectRepoFailed, RepoExists, GitNotFound, GitInitFailed}

\* C1: a process that finds a non-empty ProjectRoot in the store goes from
\* its first test straight to the "already initialized" failure, leaving
\* tree, store and repository as found; a run that completed leaves a
\* non-empty ProjectRoot in the store, so the run after it is such a process
C1_RejectsReinit ==
    /\ start.stored.ProjectRoot # "" =>
        /\ pc \in {"L38", "exit"}
        /\ pc = "exit" => exit = AlreadyInitialized
        /\ input = ""
        /\ Untouched
    /\ exit = Done => stored.ProjectRoot # ""
    /\ start.prev = Done => start.stored.ProjectRoot # ""

\* C1: init run again after a run that committed the tree is rejected
C1_Witness ==
    /\ runs > 1
    /\ start.prev = Done
    /\ start.commits # <<>>
    /\ exit = AlreadyInitialized

C3_ConfigErrorNoEffect ==
    /\ (license # "" /\ license \notin {"MIT", "BSD-3-Clause", "None"}) =>
        /\ pc \in {"L38", "L42", "L54", "L58", "L70", "L72", "L77", "exit"}
        /\ exit \in {"", AlreadyInitialized, ReadDirFailed, Declined,
                     InputRequired, UnknownLicense}
        /\ Untouched
    /\ (language # "" /\ language \notin Range(Supported)) =>
        /\ pc \in {"L38", "L42", "L54", "L58", "L70", "L72", "L77", "L90",
                   "L104", "exit"}
        /\ exit \in {"", AlreadyInitialized, ReadDirFailed, Declined,
                     InputRequired, UnknownLicense, UnknownLanguage}
        /\ Untouched
    /\ exit = UnknownLicense =>
            license # "" /\ license \notin Range(Licenses) /\ Untouched
    /\ exit = UnknownLanguage =>
            language # "" /\ language \notin Range(Supported) /\ Untouched

\* C3: --license mit, confirmed in a directory with entries, is refused
C3_Witness ==
    /\ exit = UnknownLicense
    /\ license = "mit"
    /\ input = "y"
    /\ Entries # {}


\* the names the process found in the working directory
StartEntries == {p \in start.dirs \cup DOMAIN start.files : Slashes(p) = {}}

\* C4: in non-interactive mode no step reads a line or assigns a package
\* variable; each of the four prompts ends the process with the
\* input-required failure, tree, store and repository as found; and
\* createSkeleton is called only with author, license and language given
\* by flags and with --force or in a directory found empty
C4_NonInteractive ==
    [][nonInteractive =>
        /\ UNCHANGED <<flagVars, input>>
        /\ (pc \in {"L58", "L90", "L117"} \/ (pc = "L72" /\ author = ""))
              => (pc' = "exit" /\ exit' = InputRequired /\ Untouched')
        /\ pc' = "L176" =>
              /\ author # "" /\ license # "" /\ language # ""
              /\ force \/ StartEntries = {}]_vars

\* C4: --non-interactive with an author and no license stops at the license
\* menu, nothing created
C4_Witness ==
    /\ nonInteractive
    /\ exit = InputRequired
    /\ author = "Ada"
    /\ license = ""
    /\ Untouched

\* C5: the confirmation is asked only without --force in a directory with
\* entries, before anything is resolved; it is passed only by the answer
\* "y"; "n" or an empty response ends the process with status 0, tree,
\* store, settings and repository as found; with --force or in an empty
\* directory line 70 is reached with nothing read
C5_Confirmation ==
    /\ pc = "L58" =>
        /\ ~force /\ Entries # {}
        /\ input \notin {"y", "n"}
        /\ conf = start.stored
        /\ Untouched
    /\ pc = "L70" =>
        /\ (~force /\ Entries # {}) => input = "y"
        /\ (force \/ Entries = {}) => input = ""
        /\ conf = start.stored
        /\ Untouched
    /\ exit = Declined =>
        /\ ~force /\ Entries # {}
        /\ input \in {"n", ""}
        /\ ExitStatus = 0
        /\ conf = start.stored
        /\ Untouched

\* C5: an empty response to the confirmation ends the process
C5_Witness == exit = Declined /\ input = "" /\ pc = "exit"

\* C6: while createSkeleton runs, the license is one of the three licenses
\* and the language a supported one, in the package variables and in
\* viper's settings alike
C6_ValidConfig ==
    pc \in SkeletonPcs =>
        /\ license \in {"MIT", "BSD-3-Clause", "None"}
        /\ language \in Range(Supported)
        /\ conf.License = license
        /\ conf.PrimaryLanguage = language

\* C6: createSkeleton is called with values that came from the prompts
C6_Witness ==
    /\ pc = "L176"
    /\ ~nonInteractive
    /\ conf.Author = ""
    /\ conf.License = "BSD-3-Clause"
    /\ conf.PrimaryLanguage = "r"


\* the line in spells the number i: its decimal digit, with or without "+"
Spells(in, i) ==
    \E d \in {<<1, "1">>, <<2, "2">>, <<3, "3">>} :
        d[1] = i /\ in \in {d[2], "+" \o d[2]}

\* C7: the license menu is entered with no license; a turn of it that reads
\* a line spelling i in 1..3 sets the license to the i-th of MIT,
\* BSD-3-Clause, None and goes on to the language; a turn that reads any
\* other line, the empty one included, changes nothing but the line read
\* and prompts again
C7_LicenseMenu ==
    [][pc = "L90" =>
        /\ license = ""
        /\ \/ /\ nonInteractive
              /\ pc' = "exit"
           \/ /\ ~nonInteractive
              /\ \E i \in 1..3 : Spells(input', i)
              /\ \A i \in 1..3 : Spells(input', i) =>
                    license' = <<"MIT", "BSD-3-Clause", "None">>[i]
              /\ pc' = "L104"
              /\ UNCHANGED <<exit, author, language, force, nonInteractive,
                             conf, stored, treeVars, loopVars, gitVars,
                             harnessVars>>
           \/ /\ ~nonInteractive
              /\ ~\E i \in 1..3 : Spells(input', i)
              /\ pc' = "L90"
              /\ UNCHANGED <<exit, flagVars, conf, stored, treeVars,
                             loopVars, gitVars, harnessVars>>]_vars

\* C7: the menu has turned down "4"
C7_Witness == pc = "L90" /\ input = "4" /\ license = ""

\* C8: the language menu is entered with no language; a turn of it that
\* reads the empty line sets the language to the first supported one, a
\* turn that reads a line spelling i in 1..Len(Supported) sets it to the
\* i-th, and both go on; a turn that reads any other line changes nothing
\* but the line read and prompts again
C8_LanguageMenu ==
    [][pc = "L117" =>
        /\ language = ""
        /\ \/ /\ nonInteractive
              /\ pc' = "exit"
           \/ /\ ~nonInteractive
              /\ input' = ""
              /\ language' = Supported[1]
              /\ pc' = "L136"
              /\ UNCHANGED <<exit, author, license, force, nonInteractive,
                             conf, stored, treeVars, loopVars, gitVars,
                             harnessVars>>
           \/ /\ ~nonInteractive
              /\ \E i \in 1..Len(Supported) : Spells(input', i)
              /\ \A i \in 1..Len(Supported) : Spells(input', i) =>
                    language' = Supported[i]
              /\ pc' = "L136"
              /\ UNCHANGED <<exit, author, license, force, nonInteractive,
                             conf, stored, treeVars, loopVars, gitVars,
                             harnessVars>>
           \/ /\ ~nonInteractive
              /\ input' # ""
              /\ ~\E i \in 1..Len(Supported) : Spells(input', i)
              /\ pc' = "L117"
              /\ UNCHANGED <<exit, flagVars, conf, stored, treeVars,
                             loopVars, gitVars, harnessVars>>]_vars

\* C8: the menu has turned down "0"
C8_Witness == pc = "L117" /\ input = "0" /\ language = ""

\* configuration resolution has finished
Resolved ==
    /\ conf = [ProjectRoot |-> Cwd, Author |-> author, License |-> license,
               PrimaryLanguage |-> language]
    /\ license # ""
    /\ language # ""

\* createSkeleton has returned nil: directories, placeholders, templates
\* and the store are written
SkeletonComplete ==
    /\ applied >= 1
    /\ todo = {}
    /\ ftodo = {}
    /\ stored = conf
    /\ \A i \in DirIndex :
        /\ Directories[i].dir \in dirs
        /\ Directories[i].keep =>
              Join(Directories[i].dir, ".gitkeep") \in DOMAIN files
    /\ \A src \in DOMAIN SkeletonFiles(Cwd, language) :
          Rel(SkeletonFiles(Cwd, language)[src]) \in DOMAIN files

\* writeLicense has returned nil
LicenseWritten ==
    \/ license = "None"
    \/ /\ "LICENSE" \in DOMAIN files
       /\ \E y \in Years :
            files["LICENSE"] = Render("licenses/" \o license,
                                      y \o " " \o author)

\* neither writeLicense nor initRepo has done anything
LaterStagesIdle ==
    /\ ("LICENSE" \in DOMAIN files) = ("LICENSE" \in DOMAIN start.files)
    /\ "LICENSE" \in DOMAIN files => files["LICENSE"] = start.files["LICENSE"]
    /\ (".git" \in dirs) = (".git" \in start.dirs)
    /\ commits = start.commits
    /\ index = start.index
    /\ gitCmds = 0

\* C9: before createSkeleton is called nothing is changed; it runs, or has
\* failed, with the configuration resolved and the later stages idle;
\* writeLicense runs, or has failed, with the skeleton complete and
\* initRepo idle; initRepo runs, or has failed, or has returned, with the
\* skeleton complete and the license written; a failed stage ends the
\* process with a status other than 0
C9_StageOrder ==
    /\ pc \in {"L38", "L42", "L54", "L58", "L70", "L72", "L77", "L90",
               "L104", "L117", "L136"} => Untouched
    /\ (pc \in SkeletonPcs \/ exit = SkeletonFailed) =>
            Resolved /\ LaterStagesIdle
    /\ (pc = "L145" \/ exit = LicenseFailed) =>
            Resolved /\ SkeletonComplete /\ LaterStagesIdle
    /\ (pc \in RepoPcs \/ exit \in RepoFailures \cup {Done}) =>
            Resolved /\ SkeletonComplete /\ LicenseWritten
    /\ exit \in {SkeletonFailed, LicenseFailed} \cup RepoFailures =>
            pc = "exit" /\ ExitStatus = 1
    /\ exit \in {RepoExists, GitNotFound, DetectRepoFailed} =>
            gitCmds = 0 /\ commits = start.commits
    /\ exit = GitInitFailed => gitCmds = 1 /\ commits = start.commits

\* C9: writeLicense failed after createSkeleton had returned nil, and no
\* git command was run
C9_Witness ==
    /\ exit = LicenseFailed
    /\ SkeletonComplete
    /\ gitCmds = 0
    /\ ".git" \notin dirs

\* C10: once createSkeleton has returned nil, calling it again with the
\* same settings does not fail and leaves every directory and every file,
\* content included, as the first call left them
C10_Idempotent ==
    applied >= 1 =>
        /\ pc # "exit"
        /\ exit = ""
        /\ dirs = first.dirs
        /\ files = first.files

\* C10: the second call has returned nil
C10_Witness ==
    /\ applied = 2
    /\ pc = "L145"
    /\ "data/raw/.gitkeep" \in DOMAIN files
    /\ mapOrder = "cyclic"


\* the catalog directories the directory loop has finished with
Visited == DirIndex \ todo

\* the placeholders of the flagged directories among a set of entries
Placeholders(is) ==
    {Join(Directories[j].dir, ".gitkeep") : j \in {k \in is : Directories[k].keep}}

\* the tree found at the start with the directories ds ensured and the
\* files ps created empty
TreeWith(ds, ps) ==
    /\ dirs = start.dirs \cup UNION {Ancestors(d) : d \in ds}
    /\ DOMAIN files = DOMAIN start.files \cup ps
    /\ \A p \in DOMAIN files :
          files[p] = IF p \in ps THEN "" ELSE start.files[p]

\* C11: when creating a catalog directory or a placeholder fails,
\* createSkeleton has returned an error naming that path, which belongs to
\* an entry not finished; the tree is the one the run found plus the
\* directories and placeholders of the entries finished before (and the
\* directory whose placeholder failed): no other directory or placeholder
\* exists, no template is rendered, the store is not written, and the
\* process has ended
C11_FailFast ==
    (exit = SkeletonFailed /\ errText # "") =>
        /\ pc = "exit"
        /\ \E i \in todo :
            LET dir  == Directories[i].dir
                path == Join(dir, ".gitkeep")
            IN  \/ /\ errText = "failed to create directory " \o dir
                   /\ TreeWith({Directories[j].dir : j \in Visited},
                               Placeholders(Visited))
                \/ /\ errText = "failed to create file " \o path
                   /\ Directories[i].keep
                   /\ TreeWith({Directories[j].dir : j \in Visited \cup {i}},
                               Placeholders(Visited))
        /\ ftodo = DOMAIN SkeletonFiles(Cwd, language)
        /\ stored = start.stored
        /\ applied = 0
        /\ LaterStagesIdle

\* C11: a placeholder could not be created after other entries had been
\* finished, and their placeholders are still there
C11_Witness ==
    /\ exit = SkeletonFailed
    /\ errText = "failed to create file docs/.gitkeep"
    /\ "data/raw/.gitkeep" \in DOMAIN files
    /\ "docs" \in dirs
    /\ "models" \notin dirs


\* every catalog directory, every placeholder and every templated file of
\* createSkeleton is in the tree
AllWritten ==
    /\ todo = {}
    /\ ftodo = {}
    /\ start.dirs \subseteq dirs
    /\ \A i \in DirIndex : Directories[i].dir \in dirs
    /\ \A p \in Placeholders(DirIndex) : p \in DOMAIN files /\ files[p] = ""
    /\ \A src \in DOMAIN SkeletonFiles(Cwd, language) :
        LET dest == Rel(SkeletonFiles(Cwd, language)[src])
        IN  dest \in DOMAIN files /\ files[dest] = Render(src, "")

\* C12: the store is written only when every directory, placeholder and
\* templated file is written, and is not written before utils.WriteConfig
\* is reached; when that write fails createSkeleton has returned an error,
\* the store is as the run found it, and all those directories and files
\* are still there
C12_ConfigLast ==
    /\ pc \in {"L176", "L212", "L228", "L234"} =>
            stored = start.stored /\ applied = 0
    /\ pc = "L234" => AllWritten
    /\ (stored # start.stored \/ applied >= 1) =>
            /\ AllWritten
            /\ stored = conf
            /\ files[ConfigFile] = ConfigText(conf)
    /\ (exit = SkeletonFailed /\ errText = "" /\ ftodo = {}) =>
            /\ pc = "exit"
            /\ AllWritten
            /\ stored = start.stored
            /\ applied = 0
            /\ ConfigFile \notin DOMAIN files

\* C12: the write of the store failed with the whole skeleton on disk
C12_Witness ==
    /\ exit = SkeletonFailed
    /\ errText = ""
    /\ ftodo = {}
    /\ "src/visualization/.gitkeep" \in DOMAIN files
    /\ "docker-compose.yml" \in DOMAIN files
    /\ stored = NoConf


C14_LicenseWriter ==
    [][pc = "L145" =>
        /\ dirs' = dirs
        /\ IF license = "None"
           THEN pc' = "L150" /\ files' = files
           ELSE \/ /\ pc' = "exit"
                   /\ exit' = LicenseFailed
                   /\ files' = files
                \/ /\ pc' = "L150"
                   /\ DOMAIN files' = DOMAIN files \cup {"LICENSE"}
                   /\ \E y \in Years :
                        files'["LICENSE"] =
                            Render("licenses/" \o license, y \o " " \o author)
                   /\ \A p \in DOMAIN files \ {"LICENSE"} :
                        files'[p] = files[p]]_vars

\* C14: the BSD license has been written for Ada
C14_Witness ==
    /\ pc = "L150"
    /\ license = "BSD-3-Clause"
    /\ "LICENSE" \in DOMAIN files
    /\ files["LICENSE"] = Render("licenses/BSD-3-Clause", "2026 Ada")


\* C15: a step that runs a git subcommand is taken only in a run that
\* found no repository marker at the root and that finds git; initRepo's
\* checks change neither the tree nor the repository nor the store; once
\* the directory is read they end the process with "repo already exists"
\* when the marker is there, else with "not found" when git is not, and
\* those two endings come from nowhere else
C15_RepoPreconditions ==
    [][/\ gitCmds' # gitCmds =>
            /\ ".git" \notin start.dirs
            /\ gitInPath
            /\ pc \in {"L274", "add", "commit"}
            /\ pc = "L274" => ".git" \notin dirs
       /\ pc = "L150" =>
            /\ UNCHANGED <<treeVars, gitVars, stored>>
            /\ (".git" \in dirs /\ exit' # DetectRepoFailed) =>
                    pc' = "exit" /\ exit' = RepoExists
            /\ (".git" \notin dirs /\ ~gitInPath /\ exit' # DetectRepoFailed) =>
                    pc' = "exit" /\ exit' = GitNotFound
            /\ (".git" \notin dirs /\ gitInPath /\ exit' # DetectRepoFailed) =>
                    pc' = "L274"
       /\ exit' \in {RepoExists, GitNotFound} =>
            pc = "L150" /\ gitCmds' = 0 /\ ExitStatus' = 1]_vars

\* C15: init was run in a directory under git and ended with "repo already
\* exists", the skeleton written and nothing committed
C15_Witness ==
    /\ exit = RepoExists
    /\ ".git" \in start.dirs
    /\ "README.md" \in DOMAIN files
    /\ SkeletonComplete
    /\ gitCmds = 0
    /\ commits = <<>>


\* what the ten steps stage, in the order claimed
StagingOrder == <<
    {".ccds"}, {".gitignore", "LICENSE"}, {"Dockerfile", "docker-compose.yml"},
    {"data"}, {"docs"}, {"models"}, {"notebooks"}, {"references"},
    {"reports"}, {"src"} >>

\* the place of a commit message in the narrative
Place(msg) == CHOOSE k \in 1..Len(Narrative) : Narrative[k].msg = msg

\* C16: the git subcommands run are git init, then for k = 1, 2, ... the
\* staging of the k-th group of the claimed order followed at once by the
\* commit with the k-th message; a run that returns from initRepo has run
\* all ten pairs; the commits made are in narrative order; and when every
\* subcommand succeeded the history is the ten commits, each holding what
\* its step staged, the first being "Add ccds config directory"
C16_Narrative ==
    /\ Len(StagingOrder) = Len(Narrative)
    /\ gitCmds = Len(gitLog)
    /\ \A k \in 1..Len(gitLog) :
        IF k = 1 THEN gitLog[k].cmd = "init"
        ELSE /\ gitLog[1].ok
             /\ IF k % 2 = 0
                THEN /\ gitLog[k].cmd = "add"
                     /\ gitLog[k].arg = StagingOrder[k \div 2]
                ELSE /\ gitLog[k].cmd = "commit"
                     /\ gitLog[k].arg = {Narrative[(k - 1) \div 2].msg}
                     /\ gitLog[k - 1].arg = Narrative[(k - 1) \div 2].add
    /\ exit = Done => Len(gitLog) = 1 + 2 * Len(StagingOrder)
    /\ \A i, j \in 1..Len(commits) :
          i < j => Place(commits[i].msg) < Place(commits[j].msg)
    /\ (exit = Done /\ \A k \in 1..Len(gitLog) : gitLog[k].ok) =>
          /\ Len(commits) = Len(StagingOrder)
          /\ commits[1].msg = "Add ccds config directory"
          /\ \A k \in 1..Len(commits) :
                /\ commits[k].msg = Narrative[k].msg
                /\ commits[k].files = Staged(StagingOrder[k])
                /\ commits[k].files # {}

\* C16: every one of the twenty-one subcommands succeeded
C16_Witness ==
    /\ exit = Done
    /\ Len(gitLog) = 21
    /\ \A k \in 1..Len(gitLog) : gitLog[k].ok
    /\ Len(commits) = 10
    /\ commits[10].msg = "Add directory for storing source code"


\* C17: once git init has succeeded the process is in the narrative or has
\* ended; while in it no error is reported and every step so far has been
\* run, whether or not it failed; it ends only by initRepo returning nil
\* after all twenty subcommands of the narrative, with exit status 0,
\* however many commits were made
C17_BestEffort ==
    (Len(gitLog) >= 1 /\ gitLog[1].ok) =>
        /\ pc \in {"add", "commit", "exit"}
        /\ pc = "add" => exit = "" /\ Len(gitLog) = 2 * step - 1
        /\ pc = "commit" => exit = "" /\ Len(gitLog) = 2 * step
        /\ pc = "exit" =>
              /\ exit = Done
              /\ ExitStatus = 0
              /\ Len(gitLog) = 1 + 2 * Len(Narrative)
        /\ Len(commits) = Cardinality({k \in 1..Len(gitLog) :
                              gitLog[k].cmd = "commit" /\ gitLog[k].ok})

\* C17: every staging succeeded, every commit failed, and init exited 0
\* with an empty history
C17_Witness ==
    /\ exit = Done
    /\ ~identity
    /\ commits = <<>>
    /\ Len(gitLog) = 21
    /\ \A k \in 2..Len(gitLog) : gitLog[k].ok = (gitLog[k].cmd = "add")


\* the placeholder files in the tree
KeepFiles == {p \in DOMAIN files :
                \E i \in DirIndex : p = Join(Directories[i].dir, ".gitkeep")}

\* C18: in whatever order the catalog is visited, no creation fails, a
\* directory that is not flagged never holds a placeholder, the directories
\* and placeholders in the tree depend only on which entries have been
\* visited and not on their order, and when the directory loop has ended
\* the directories are the catalog's with their parents and the
\* placeholders are those of the flagged directories
C18_OrderIndependent ==
    /\ exit # SkeletonFailed
    /\ \A i \in DirIndex :
          ~Directories[i].keep =>
              Join(Directories[i].dir, ".gitkeep") \notin DOMAIN files
    /\ pc = "L212" =>
          /\ dirs = start.dirs
                     \cup UNION {Ancestors(Directories[j].dir) : j \in Visited}
          /\ KeepFiles = Placeholders(Visited)
    /\ pc \in {"L228", "L234", "L145"} =>
          /\ dirs = start.dirs \cup SkeletonDirs
          /\ KeepFiles = Placeholders(DirIndex)
          /\ \A p \in KeepFiles : files[p] = ""
    /\ pc = "L145" =>
          files = SkeletonTree(start.files, manifest, conf)

\* C18: every entry but "data" has been visited, its four children before
\* it
C18_Witness ==
    /\ mapOrder = "any"
    /\ pc = "L212"
    /\ todo = {2}
    /\ Directories[2].dir = "data"
    /\ "data/raw/.gitkeep" \in DOMAIN files
    /\ "data" \in dirs


\* C19 as claimed: when a staging step is about to run, every path it
\* names is a directory or a file of the working tree
C19_Claimed ==
    pc = "add" =>
        \A p \in Narrative[step].add : p \in dirs \cup DOMAIN files

\* C19: with the license None and no outside fault, `git add .gitignore
\* LICENSE` was refused for the missing LICENSE, and init exited 0 with
\* nine commits, none of them holding .gitignore
C19_Witness ==
    /\ exit = Done
    /\ license = "None"
    /\ gitFaults = 0
    /\ "LICENSE" \notin DOMAIN files
    /\ gitLog[4] = [cmd |-> "add", arg |-> {".gitignore", "LICENSE"},
                    ok |-> FALSE]
    /\ Len(commits) = 9
    /\ \A k \in 1..Len(commits) : ".gitignore" \notin commits[k].files


\* C20 as claimed: with the input exhausted, so that the last read returned
\* the empty string and this one does too, a turn of the confirmation loop,
\* of the license menu or of the language menu leaves its loop
C20_Claimed ==
    [][(/\ pc \in {"L58", "L90", "L117"}
        /\ ~nonInteractive
        /\ input = ""
        /\ input' = "") => pc' # pc]_vars

\* C20: the license menu has read the empty string MaxTurns times, in a run
\* where no read returned anything else, and prompts again
C20_Witness ==
    /\ pc = "L90"
    /\ ~nonInteractive
    /\ turns = MaxTurns
    /\ input = ""
    /\ author = ""
    /\ license = ""

=============================================================================
